---- MODULE Spec2Model ----
(***************************************************************************)
(* Model of embedded-hal-error (src/src/lib.rs): the newtype wrapper       *)
(* Error<E, K> that stores a HAL error together with its ErrorKind and     *)
(* exposes the kind as core::error::Error::source().                       *)
(*                                                                         *)
(* The wrapper is generic over E.  An E is modelled by the behaviours the  *)
(* trait bounds allow: a kind() that may depend on interior state, a Debug *)
(* rendering, an optional Display rendering, a &self method that changes   *)
(* interior state (poke) and a &mut self method (clear).                   *)
(***************************************************************************)
EXTENDS Integers, Sequences, FiniteSets, TLC

VARIABLES
    w,          \* the live wrapper Error<E, K>, or NoneV
    orig,       \* the value e handed to Error::from, as it was at that moment
    twin,       \* a copy of e on which every forwarded call is also made directly
    dirty,      \* TRUE once a forwarded call changed the interior state of inner
    out,        \* the last operation and what it returned
    kindCalls,  \* number of E::kind() invocations made so far
    drv         \* tests::driver::action run on tests::hal::Pin

vars == <<w, orig, twin, dirty, out, kindCalls, drv>>

----------------------------------------------------------------------------
(* Bounds *)

\* interior states of an E are 0..MaxCell
MaxCell == 1

\* cap on the number of kind() invocations in one behaviour
MaxKindCalls == 3

\* how many times the user of a chain asks source() before giving up
MaxWalk == 5

----------------------------------------------------------------------------
(* Values *)

NoneV == [tag |-> "None"]

Some(x) == [tag |-> "Some", val |-> x]

Unit == [tag |-> "Unit"]

\* the seven families impl_from! is invoked for
Families == {"digital", "i2c", "pwm", "spi", "can", "serial", "io"}

\* variants of each family's ErrorKind enumeration (two of them where the
\* family has more than one)
FamilyKinds(f) ==
    CASE f = "digital" -> {"Other"}
      [] f = "pwm"     -> {"Other"}
      [] f = "i2c"     -> {"Bus", "Other"}
      [] f = "spi"     -> {"Overrun", "Other"}
      [] f = "can"     -> {"Overrun", "Other"}
      [] f = "serial"  -> {"Overrun", "Other"}
      [] f = "io"      -> {"NotFound", "Other"}

Kind(f, v) == [tag |-> "ErrorKind", family |-> f, variant |-> v]

Kinds == { Kind(f, v) : f \in Families, v \in {"Other", "Bus", "Overrun", "NotFound"} }

\* the values an E: <family>::Error + Debug can take: kind() answers base
\* while the interior state is 0 and alt afterwards; display tells whether
\* E also implements Display
HalErrors ==
    UNION { [ family  : {f},
              base    : FamilyKinds(f),
              alt     : FamilyKinds(f),
              cell    : 0..MaxCell,
              display : BOOLEAN ] : f \in Families }

\* tests::hal::HalError: a unit struct of the digital family, no Display
HalError == [family |-> "digital", base |-> "Other", alt |-> "Other",
             cell |-> 0, display |-> FALSE]

----------------------------------------------------------------------------
(* The inner error type E *)

\* E::kind(&self)
KindOf(e) == Kind(e.family, IF e.cell = 0 THEN e.base ELSE e.alt)

\* <E as Debug>::fmt: the type and its interior state
DebugFmt(e) == [by |-> "Debug", type |-> e.family, cell |-> e.cell]

\* <E as Display>::fmt, for an E that has one
DisplayFmt(e) ==
    IF e.display THEN [by |-> "Display", type |-> e.family]
                 ELSE [by |-> "unimplemented"]

\* methods of E that take &self
SharedMethods == {"kind", "debug", "poke"}

\* methods of E that take &mut self
ExclusiveMethods == {"clear"}

\* a method of E called on the value e: what it returns and what e is afterwards
MethodCall(e, m) ==
    CASE m = "kind"  -> [ret |-> KindOf(e), self |-> e]
      [] m = "debug" -> [ret |-> DebugFmt(e), self |-> e]
      [] m = "poke"  -> [ret |-> Unit,
                         self |-> [e EXCEPT !.cell = (e.cell + 1) % (MaxCell + 1)]]
      [] m = "clear" -> [ret |-> Unit, self |-> [e EXCEPT !.cell = 0]]

----------------------------------------------------------------------------
(* The wrapper Error<E, K> *)

\* struct Error<E, K> { inner, kind }
Adapter(e, k) == [tag |-> "Error", inner |-> e, kind |-> k]

\* a faulty FromCalls: kind() asked twice
FromCallsTwice(e) == <<"kind", "kind">>

\* the calls Error::from makes on its argument
FromCalls(e) == <<"kind">>

\* a faulty From: the kind hard-wired instead of asked of inner
FromOther(e) == Adapter(e, Kind(e.family, "Other"))

\* From<E> for Error<E, K>: let kind = inner.kind(); Self { inner, kind }
From(e) == Adapter(e, KindOf(e))

\* a faulty IntoInner: a rebuilt value instead of the stored one
IntoInnerReset(a) == [a.inner EXCEPT !.cell = 0]

\* Error::into_inner
IntoInner(a) == a.inner

\* a faulty Deref: a reference to a fresh copy instead of the stored inner
DerefStale(a) == [a.inner EXCEPT !.cell = 0]

\* <Error<E, K> as Deref>::deref
Deref(a) == a.inner

\* a faulty Forwarded: a DerefMut implementation added
ForwardedMut == {"shared", "exclusive"}

\* the receivers the wrapper forwards to inner: Deref is implemented,
\* DerefMut is not, and both fields are private
Forwarded == {"shared"}

\* a faulty ErrorDisplay: the bound E: Display and inner's Display used
ErrorDisplayInner(a) == DisplayFmt(a.inner)

\* <Error<E, K> as Display>::fmt: self.inner.fmt(f) under the bound E: Debug
ErrorDisplay(a) == DebugFmt(a.inner)

\* a faulty ErrorDebug: a derived Debug, which prints both fields
ErrorDebugDerived(a) ==
    [by |-> "Debug", type |-> a.inner.family, cell |-> a.inner.cell, kind |-> a.kind]

\* <Error<E, K> as Debug>::fmt: self.inner.fmt(f) under the bound E: Debug
ErrorDebug(a) == DebugFmt(a.inner)

\* a faulty ErrorSource: the provided method kept, no cause
ErrorSourceNone(a) == NoneV

\* a faulty ErrorSource: the kind asked of inner at each call
ErrorSourceLive(a) == Some(KindOf(a.inner))

\* <Error<E, K> as core::error::Error>::source
ErrorSource(a) == Some(a.kind)

\* source() of an ErrorKind: the enumerations keep the provided method
KindSource(k) == NoneV

\* tests::driver::DriverError::Hal(#[from] Error<E, digital::ErrorKind>)
DriverHal(a) == [tag |-> "DriverError::Hal", from |-> a]

\* From<E> for DriverError<E>: Error::from(value).into()
DriverFrom(e) == DriverHal(From(e))

\* source() of a DriverError: the #[from] field
DriverSource(d) == Some(d.from)

\* source() of a value behind &dyn Error
SourceOf(n) ==
    CASE n.tag = "DriverError::Hal" -> DriverSource(n)
      [] n.tag = "Error"            -> ErrorSource(n)
      [] n.tag = "ErrorKind"        -> KindSource(n)

\* the values met by calling source() repeatedly from n, n first, asking at
\* most fuel times
RECURSIVE Walk(_, _)
Walk(n, fuel) ==
    IF fuel = 0 \/ SourceOf(n).tag = "None"
    THEN <<n>>
    ELSE <<n>> \o Walk(SourceOf(n).val, fuel - 1)

Chain(n) == Walk(n, MaxWalk)

----------------------------------------------------------------------------
(* tests::hal and tests::driver *)

Ok(x) == [tag |-> "Ok", val |-> x]

Err(x) == [tag |-> "Err", val |-> x]

\* <Pin as OutputPin>::set_high
PinSetHigh == Err(HalError)

\* a faulty Question: the failure dropped and the function carried on
QuestionSwallow(r) == [returns |-> FALSE, val |-> Unit]

\* what `?` in driver::action does with a Result of a pin call: an Err
\* returns from the function, converted through From
Question(r) ==
    IF r.tag = "Err" THEN [returns |-> TRUE, val |-> Err(DriverFrom(r.val))]
                     ELSE [returns |-> FALSE, val |-> r.val]

----------------------------------------------------------------------------
(* State machine *)

NoOut == [op |-> "none", via |-> Unit, direct |-> Unit]

Init ==
    /\ w = NoneV
    /\ orig = NoneV
    /\ twin = NoneV
    /\ dirty = FALSE
    /\ out = NoOut
    /\ kindCalls = 0
    /\ drv = [pc |-> "idle", calls |-> <<>>, pending |-> NoneV, ret |-> NoneV]

\* Error::from(e) for a peripheral error e
Wrap(e) ==
    /\ w.tag = "None"
    /\ kindCalls + Len(FromCalls(e)) <= MaxKindCalls
    /\ w' = From(e)
    /\ orig' = e
    /\ twin' = e
    /\ dirty' = FALSE
    /\ kindCalls' = kindCalls + Len(FromCalls(e))
    /\ out' = [op |-> "wrap", via |-> From(e), direct |-> e]
    /\ UNCHANGED drv

\* a &self method of E called on the wrapper, which auto-dereferences
DerefCall(m) ==
    /\ w.tag = "Error"
    /\ m \in SharedMethods
    /\ m = "kind" => kindCalls < MaxKindCalls
    /\ LET r == MethodCall(Deref(w), m)
           d == MethodCall(twin, m)
       IN /\ w' = [w EXCEPT !.inner = r.self]
          /\ twin' = d.self
          /\ dirty' = (dirty \/ r.self # Deref(w))
          /\ out' = [op |-> m, via |-> r, direct |-> d]
    /\ kindCalls' = IF m = "kind" THEN kindCalls + 1 ELSE kindCalls
    /\ UNCHANGED <<orig, drv>>

Rejected == [tag |-> "E0596"]

\* a &mut self method of E called on the wrapper: there is no DerefMut, so
\* no program makes the call; the wrapper stays as it is
DerefMutCall(m) ==
    /\ w.tag = "Error"
    /\ m \in ExclusiveMethods
    /\ LET r == IF "exclusive" \in Forwarded
                THEN MethodCall(w.inner, m)
                ELSE [ret |-> Rejected, self |-> w.inner]
           d == MethodCall(twin, m)
       IN /\ w' = [w EXCEPT !.inner = r.self]
          /\ twin' = IF "exclusive" \in Forwarded THEN d.self ELSE twin
          /\ dirty' = (dirty \/ r.self # w.inner)
          /\ out' = [op |-> m, via |-> r, direct |-> d]
    /\ UNCHANGED <<orig, kindCalls, drv>>

\* format!("{}", w)
FmtDisplay ==
    /\ w.tag = "Error"
    /\ out' = [op |-> "display",
               via |-> [ret |-> ErrorDisplay(w), self |-> w.inner],
               direct |-> [ret |-> DisplayFmt(twin), self |-> twin]]
    /\ UNCHANGED <<w, orig, twin, dirty, kindCalls, drv>>

\* format!("{:?}", w)
FmtDebug ==
    /\ w.tag = "Error"
    /\ out' = [op |-> "debug_fmt",
               via |-> [ret |-> ErrorDebug(w), self |-> w.inner],
               direct |-> [ret |-> DebugFmt(twin), self |-> twin]]
    /\ UNCHANGED <<w, orig, twin, dirty, kindCalls, drv>>

\* w.source()
Source ==
    /\ w.tag = "Error"
    /\ out' = [op |-> "source",
               via |-> [ret |-> ErrorSource(w), self |-> w.inner],
               direct |-> [ret |-> Unit, self |-> twin]]
    /\ UNCHANGED <<w, orig, twin, dirty, kindCalls, drv>>

\* the user's walk of tests::it_works, from a composed error whose cause is w
WalkChain ==
    /\ w.tag = "Error"
    /\ out' = [op |-> "walk",
               via |-> [ret |-> Chain(DriverHal(w)), self |-> w.inner],
               direct |-> [ret |-> Unit, self |-> twin]]
    /\ UNCHANGED <<w, orig, twin, dirty, kindCalls, drv>>

\* w.into_inner()
Extract ==
    /\ w.tag = "Error"
    /\ w' = NoneV
    /\ out' = [op |-> "into_inner",
               via |-> [ret |-> IntoInner(w), self |-> Unit],
               direct |-> [ret |-> twin, self |-> Unit]]
    /\ UNCHANGED <<orig, twin, dirty, kindCalls, drv>>

\* driver::action: pin.set_high()
DriverSetHigh ==
    /\ drv.pc = "idle"
    /\ drv' = [drv EXCEPT !.pc = "set_high", !.calls = Append(@, "set_high"),
                          !.pending = PinSetHigh]
    /\ UNCHANGED <<w, orig, twin, dirty, out, kindCalls>>

\* driver::action: Ok(...?) on the result of set_high
DriverReturn ==
    /\ drv.pc = "set_high"
    /\ LET q == Question(drv.pending)
           n == IF q.returns THEN Len(FromCalls(drv.pending.val)) ELSE 0
       IN /\ kindCalls + n <= MaxKindCalls
          /\ kindCalls' = kindCalls + n
          /\ drv' = [drv EXCEPT !.pc = "returned", !.pending = NoneV,
                                !.ret = IF q.returns THEN q.val ELSE Ok(q.val)]
    /\ UNCHANGED <<w, orig, twin, dirty, out>>

Next ==
    \/ \E e \in HalErrors : Wrap(e)
    \/ \E m \in SharedMethods : DerefCall(m)
    \/ \E m \in ExclusiveMethods : DerefMutCall(m)
    \/ FmtDisplay
    \/ FmtDebug
    \/ Source
    \/ WalkChain
    \/ Extract
    \/ DriverSetHigh
    \/ DriverReturn

Spec == Init /\ [][Next]_vars

----------------------------------------------------------------------------
(* Properties *)

\* a wrapper is alive
Live == w.tag = "Error"

\* C1: the kind held by Error::from(e) is e.kind() as e was when it was
\* wrapped, in every family; right after wrapping, kind() asked through the
\* wrapper gives the same value
ClassificationConsistency ==
    /\ Live => w.kind = KindOf(orig)
    /\ out.op = "wrap" =>
          /\ out.via.kind = KindOf(out.direct)
          /\ MethodCall(Deref(w), "kind").ret = KindOf(out.direct)
    /\ drv.ret.tag = "Err" => drv.ret.val.from.kind = KindOf(HalError)

ClassificationConsistencyWitness ==
    /\ out.op = "wrap"
    /\ orig.cell = 1
    /\ orig.base = "Other"
    /\ w.kind.variant = "Bus"

\* C2: from a composed error D whose cause is the wrapper, source() visits
\* D, the wrapper, the stored kind, and then nothing: the wrapper's source
\* is always Some(kind), a kind's source is always None
ChainDepth ==
    /\ Live =>
          /\ Chain(DriverHal(w)) = <<DriverHal(w), w, w.kind>>
          /\ SourceOf(w) = Some(w.kind)
          /\ SourceOf(w.kind) = NoneV
    /\ out.op = "walk" =>
          /\ Len(out.via.ret) = 3
          /\ out.via.ret[1].tag = "DriverError::Hal"
          /\ out.via.ret[2] = w
          /\ out.via.ret[3] = KindOf(orig)

ChainDepthWitness ==
    /\ out.op = "walk"
    /\ dirty
    /\ out.via.ret[3].variant = "Overrun"
    /\ KindOf(w.inner).variant = "Other"

\* C3: into_inner gives back the wrapped value: equal to the copy that went
\* through the same calls directly (same Debug, same Display, same kind()),
\* and equal to the value handed to from when no call changed its interior
RoundTrip ==
    out.op = "into_inner" =>
        /\ w = NoneV
        /\ out.via.ret = out.direct.ret
        /\ out.via.ret = twin
        /\ DebugFmt(out.via.ret) = DebugFmt(twin)
        /\ DisplayFmt(out.via.ret) = DisplayFmt(twin)
        /\ KindOf(out.via.ret) = KindOf(twin)
        /\ ~dirty => out.via.ret = orig

RoundTripWitness ==
    /\ out.op = "into_inner"
    /\ ~dirty
    /\ kindCalls >= 2
    /\ orig.cell = 1
    /\ orig.base # orig.alt

\* C4 as stated: the wrapper's Display is the inner Display (for an E that
\* has one) and the wrapper's Debug is the inner Debug
RenderingDelegationAsStated ==
    /\ (out.op = "display" /\ twin.display) => out.via.ret = out.direct.ret
    /\ out.op = "debug_fmt" => out.via.ret = out.direct.ret

\* C4, amended: the wrapper's Debug is the inner Debug, and the wrapper's
\* Display is the inner Debug too, whatever inner's Display is; neither
\* depends on the stored kind
RenderingDelegation ==
    /\ out.op = "debug_fmt" => out.via.ret = out.direct.ret
    /\ out.op = "display" => out.via.ret = DebugFmt(twin)
    /\ Live => \A k \in Kinds :
          /\ ErrorDisplay([w EXCEPT !.kind = k]) = ErrorDisplay(w)
          /\ ErrorDebug([w EXCEPT !.kind = k]) = ErrorDebug(w)
          /\ ErrorDebug(w) = DebugFmt(w.inner)

RenderingDelegationWitness ==
    /\ out.op = "display"
    /\ twin.display
    /\ dirty

\* C5: Display and Debug of the wrapper are both the inner Debug, also for
\* an E without Display
DisplayIsDebug ==
    /\ Live =>
          /\ ErrorDisplay(w) = ErrorDebug(w)
          /\ ErrorDisplay(w) = DebugFmt(Deref(w))
          /\ ErrorDisplay(w).by = "Debug"
    /\ out.op \in {"display", "debug_fmt"} =>
          /\ out.via.ret = MethodCall(twin, "debug").ret
          /\ out.via.ret.by = "Debug"

DisplayIsDebugWitness ==
    /\ out.op = "display"
    /\ ~twin.display
    /\ out.direct.ret.by = "unimplemented"
    /\ out.via.ret.by = "Debug"

\* C6: a &self method called through the wrapper returns what it returns
\* called directly and leaves inner as the direct call leaves it; a
\* forwarded call never changes the stored kind, a call other than poke
\* never changes inner, and only into_inner ends the wrapper
TransparentForwardingState ==
    /\ out.op \in SharedMethods =>
          /\ out.via = out.direct
          /\ Live
          /\ w.inner = twin
    /\ Live => w.inner = twin
    /\ (~Live /\ out.op # "none") => out.op = "into_inner"

TransparentForwardingStep ==
    /\ (Live /\ w'.tag = "Error") =>
          /\ w'.kind = w.kind
          /\ out'.op # "poke" => w'.inner = w.inner
    /\ (Live /\ w'.tag = "None") =>
          /\ out'.op = "into_inner"
          /\ out'.via.ret = w.inner

MutateThroughAsStated ==
    out.op \in {"poke", "clear"} =>
        /\ out.via.self = out.direct.self
        /\ w.inner = out.direct.self
        /\ w.kind = KindOf(orig)

\* C7, amended: a method that changes E behind &self changes inner through
\* the wrapper as it does directly, the stored kind staying; a &mut self
\* method is not forwarded and inner and kind stay as they are
MutateThroughState ==
    /\ out.op = "poke" =>
          /\ out.via = out.direct
          /\ w.inner = out.direct.self
          /\ w.kind = KindOf(orig)
    /\ out.op = "clear" =>
          /\ out.via.ret = Rejected
          /\ out.via.self = w.inner
          /\ w.kind = KindOf(orig)

MutateThroughStep ==
    out'.op = "clear" => w' = w

MutateThrough ==
    /\ []MutateThroughState
    /\ [][MutateThroughStep]_vars

MutateThroughWitness ==
    /\ out.op = "clear"
    /\ w.inner.cell = 1
    /\ out.direct.self.cell = 0

WrapTotalState ==
    /\ \A e \in HalErrors :
          /\ From(e).tag = "Error"
          /\ From(e).inner = e
          /\ From(e).kind \in { Kind(e.family, v) : v \in FamilyKinds(e.family) }
    /\ (~Live /\ kindCalls < MaxKindCalls) => \A e \in HalErrors : ENABLED Wrap(e)

WrapTotalStep ==
    (~Live /\ w'.tag # "None") =>
        /\ w'.tag = "Error"
        /\ w'.inner = out'.direct
        /\ out'.op = "wrap"
        /\ kindCalls' = kindCalls + 1
        /\ drv' = drv

WrapTotal ==
    /\ []WrapTotalState
    /\ [][WrapTotalStep]_vars

WrapTotalWitness ==
    /\ out.op = "wrap"
    /\ kindCalls = MaxKindCalls
    /\ drv.pc = "returned"

\* C10 as stated: the classification read from the wrapper and the cause
\* returned by source() are e.kind() as computed at construction
StoredKindAsStated ==
    /\ out.op = "kind" => (Live /\ out.via.ret = KindOf(orig))
    /\ out.op = "source" => (Live /\ out.via.ret = Some(KindOf(orig)))

\* C10, amended: the stored kind and the cause returned by source() are
\* e.kind() as computed at construction and source() does not consume the
\* wrapper; kind() asked of the wrapper is forwarded to inner and answers
\* what inner reports now
StoredKind ==
    /\ Live =>
          /\ w.kind = KindOf(orig)
          /\ ErrorSource(w) = Some(KindOf(orig))
    /\ out.op = "source" => (Live /\ out.via.ret = Some(KindOf(orig)))
    /\ out.op = "kind" => (Live /\ out.via.ret = KindOf(w.inner))

StoredKindWitness ==
    /\ out.op = "source"
    /\ dirty
    /\ KindOf(w.inner) # KindOf(orig)

====
